---- MODULE Spec2Model ----
(***************************************************************************)
(* A model of kvs. The log-structured engine (src/src/kv.rs): the          *)
(* in-memory index `map`, the buffered `writer` on the active segment, the *)
(* active segment `id`, the store directory, the calls set/get/remove      *)
(* split at their lock acquisitions, and the compaction threads that set   *)
(* spawns on a rollover (compact, then merge). The server                  *)
(* (src/src/server.rs) and its clients (src/src/client.rs): one request    *)
(* and one response per connection, served by one thread.                  *)
(***************************************************************************)
EXTENDS Integers, Sequences, FiniteSets, TLC

VARIABLES
    files,     \* the store directory: segment id -> the records of <id>.log
    map,       \* KvStore.map: key -> FilePointer [path, offset]
    writer,    \* KvStore.writer: the segment it appends to and its position
    id,        \* KvStore.id: the active segment id (u16)
    pc,        \* where each worker thread is inside its engine call
    op,        \* the call each worker thread is executing
    offset,    \* set's local `offset` of each worker thread
    comp,      \* the compaction threads, keyed by their max_id
    model,     \* the contract's view: key -> the value last written, Removed or None
    issued,    \* key -> the values some set(key, value) was called with
    removes,   \* whether remove has been called
    ops,       \* the number of set and remove calls made so far
    clients,   \* each KvsClient: its connection, request and response
    backlog,   \* the connections the listener has not finished serving
    acked,     \* key -> the value of the last set a client saw acknowledged
    pool,      \* a SharedQueueThreadPool: its channel, its workers, its jobs
    boot       \* the kvs-server process: its marker directory and its startup

engine == <<files, map, writer, id, pc, op, offset, comp, model, issued,
            removes, ops>>

net == <<clients, backlog, acked>>

vars == <<files, map, writer, id, pc, op, offset, comp, model, issued,
          removes, ops, clients, backlog, acked, pool, boot>>

-----------------------------------------------------------------------------
(* Inputs and bounds *)

Threads == {"t1", "t2"}
Keys == {"a", "b"}
Values == {"v1", "v2"}

\* the clients of the server, the values they send (the empty string among
\* them) and the engine thread that runs KvsServer::start
Clients == {"A", "B"}
NetValues == {"", "v1"}
Server == "t1"

\* bytes of every key and of every (non-empty) value the clients use
KeyLen == 1
ValLen == 1000
\* the number of set and remove calls explored
MaxOps == 3
\* the same for the deeper specification SpecDeep
MaxDeepOps == 4
\* the number of set and remove requests the clients send in SpecNet
MaxNetOps == 2
\* the `threads` a SharedQueueThreadPool is created with in SpecPool
PoolSize == 2
\* the number of jobs passed to spawn in SpecPool
MaxJobs == 3
\* the number of times kvs-server is started in SpecBoot
MaxStarts == 4
\* the number of records in a segment of the directories of SpecOpen
MaxRecs == 2

None == "none"
Err == "Err"
\* in `model`: the last write of the key was a remove that returned Ok
Removed == "removed"
\* in `acked` and `expect`: no acknowledged set determines the value
Unknown == "unknown"

\* Config::default()
filesize_limit == 1024
compaction_thresh == 4

\* 2^16: KvStore.id and every segment id are u16
U16 == 65536

\* bytes serde_json writes for a Command besides the key and the value:
\* {"cmd":"Set","key":"","value":""} and {"cmd":"Rm","key":"","value":""}
SetOverhead == 33
RmOverhead == 32

-----------------------------------------------------------------------------
(* Records, segment files and byte offsets *)

StrLen(v) == IF v = "" THEN 0 ELSE ValLen

SetCmd(k, v) == [cmd |-> "Set", key |-> k, value |-> v]
RmCmd(k) == [cmd |-> "Rm", key |-> k, value |-> ""]

\* serde_json::to_writer(&mut writer, &cmd): the bytes one record takes
RecSize(r) ==
    IF r.cmd = "Set" THEN SetOverhead + KeyLen + StrLen(r.value)
    ELSE RmOverhead + KeyLen + StrLen(r.value)

RECURSIVE Size(_)
Size(recs) == IF recs = <<>> THEN 0 ELSE RecSize(Head(recs)) + Size(Tail(recs))

\* stream.byte_offset() before the n-th record of a file
StartOffset(recs, n) == Size(SubSeq(recs, 1, n - 1))

\* the records of a file that start at byte `off` (at most one)
RecordsAt(recs, off) == {n \in 1..Len(recs) : StartOffset(recs, n) = off}

Insert(m, k, fp) == [x \in DOMAIN m \cup {k} |-> IF x = k THEN fp ELSE m[x]]
Delete(m, k) == [x \in DOMAIN m \ {k} |-> m[x]]

Max(S) == CHOOSE x \in S : \A y \in S : y <= x
Min(S) == CHOOSE x \in S : \A y \in S : x <= y

\* ids.sort_unstable()
RECURSIVE Sorted(_)
Sorted(S) == IF S = {} THEN <<>> ELSE <<Min(S)>> \o Sorted(S \ {Min(S)})

\* the orders in which fs::read_dir may list a set of entries
RECURSIVE Orders(_)
Orders(S) ==
    IF S = {} THEN {<<>>}
    ELSE UNION {{<<x>> \o o : o \in Orders(S \ {x})} : x \in S}

-----------------------------------------------------------------------------
(* load and open *)

\* the while loop of load over one segment: Set inserts, Rm removes
RECURSIVE Replay(_, _, _, _)
Replay(m, seg, recs, n) ==
    IF n > Len(recs) THEN m
    ELSE Replay(IF recs[n].cmd = "Set"
                THEN Insert(m, recs[n].key,
                            [path |-> seg, offset |-> StartOffset(recs, n)])
                ELSE Delete(m, recs[n].key),
                seg, recs, n + 1)

RECURSIVE LoadFrom(_, _, _)
LoadFrom(m, dir, ids) ==
    IF ids = <<>> THEN m
    ELSE LoadFrom(Replay(m, Head(ids), dir[Head(ids)], 1), dir, Tail(ids))

EmptyMap == [x \in {} |-> 0]

\* a load that replays the segments from the highest id down
loadDescending(dir) ==
    LET ids == Sorted(DOMAIN dir)
    IN  [map |-> LoadFrom(EmptyMap, dir,
                          [n \in 1..Len(ids) |-> ids[Len(ids) + 1 - n]]),
         last_id |-> IF DOMAIN dir = {} THEN 0 ELSE Max(DOMAIN dir)]

\* kv.rs 308-351: load
load(dir) ==
    [map |-> LoadFrom(EmptyMap, dir, Sorted(DOMAIN dir)),
     last_id |-> IF DOMAIN dir = {} THEN 0 ELSE Max(DOMAIN dir)]

\* OpenOptions::new().append(true).create(true).open(path)
Create(dir, i) == IF i \in DOMAIN dir THEN dir ELSE dir @@ (i :> <<>>)

\* KvStore::get on an index and a directory
get(m, dir, k) ==
    IF k \notin DOMAIN m THEN None
    ELSE IF m[k].path \notin DOMAIN dir THEN Err
    ELSE LET recs == dir[m[k].path]
             at == RecordsAt(recs, m[k].offset)
         IN  IF at # {} THEN recs[CHOOSE n \in at : TRUE].value
             ELSE IF m[k].offset >= Size(recs) THEN None
             ELSE Err

\* store directories an earlier run of the engine leaves behind: a fresh one,
\* and the one after set(a, v1); set(b, v1); set(a, v2) with 1000-byte values
InitDirs ==
    {EmptyMap,
     (0 :> <<SetCmd("a", "v1")>>) @@ (2 :> <<SetCmd("b", "v1")>>)
        @@ (4 :> <<SetCmd("a", "v2")>>)}

RECURSIVE ValuesIn(_, _)
ValuesIn(recs, k) ==
    IF recs = <<>> THEN {}
    ELSE (IF Head(recs).cmd = "Set" /\ Head(recs).key = k
          THEN {Head(recs).value} ELSE {}) \cup ValuesIn(Tail(recs), k)

\* KvStore::open: the engine state over a store directory
open(dir) ==
    LET l == load(dir)
        d == Create(dir, l.last_id)
    IN  [files |-> d,
         map |-> l.map,
         writer |-> [seg |-> l.last_id, pos |-> Size(d[l.last_id])],
         id |-> l.last_id]

NoOp == [type |-> None, key |-> None, value |-> None]
NoResp == [status |-> None, value |-> None, error |-> None]

\* a KvsClient that is not connected
Idle ==
    [st |-> "idle", req |-> NoOp, resp |-> NoResp, expect |-> Unknown,
     clean |-> FALSE]

\* the directory an earlier run leaves just below the top of the u16 ids: the
\* segment merged by compaction 65528, and the segments 65530 and 65532
WrapDirs ==
    {((U16 - 7) :> <<SetCmd("b", "v1")>>) @@ ((U16 - 6) :> <<SetCmd("a", "v1")>>)
        @@ ((U16 - 4) :> <<SetCmd("a", "v2")>>)}

\* thread_pool.rs 43-50: SharedQueueThreadPool::new(PoolSize) has returned Ok;
\* every worker waits in recv
NewPool ==
    [queue |-> <<>>,
     workers |-> [w \in 1..PoolSize |-> [st |-> "idle", job |-> 0]],
     spawned |-> PoolSize,
     open |-> TRUE,
     passed |-> 0,
     bad |-> {},
     runs |-> [j \in 1..MaxJobs |-> 0],
     panics |-> 0,
     late |-> {}]

\* the engines kvs-server can be asked for with --engine
Engines == {"kvs", "sled"}

\* no kvs-server has been started in the working directory
Down ==
    [markers |-> {}, pos |-> "down", req |-> None, engine |-> "", exit |-> 0,
     starts |-> 0]

InitOn(dirs) ==
    /\ \E dir \in dirs :
          LET st == open(dir)
          IN  /\ files = st.files
              /\ map = st.map
              /\ writer = st.writer
              /\ id = st.id
              /\ model = [k \in Keys |-> get(st.map, st.files, k)]
              /\ issued = [k \in Keys |->
                              UNION {ValuesIn(dir[i], k) : i \in DOMAIN dir}]
    /\ pc = [t \in Threads |-> "idle"]
    /\ op = [t \in Threads |-> NoOp]
    /\ offset = [t \in Threads |-> 0]
    /\ comp = EmptyMap
    /\ removes = FALSE
    /\ ops = 0
    /\ clients = [c \in Clients |-> Idle]
    /\ backlog = <<>>
    /\ acked = [k \in Keys |-> Unknown]
    /\ pool = NewPool
    /\ boot = Down

Init == InitOn(InitDirs)
InitWrap == InitOn(WrapDirs)

-----------------------------------------------------------------------------
(* Locks: who holds what follows from where the threads are *)

\* self.writer (and self.id, which only set locks, right after the writer)
WriterHolders == {t \in Threads : pc[t] = "set_locked"}
\* self.map write-locked: a remove that waits for the writer
MapWriters == {t \in Threads : pc[t] = "rm_locked"}
\* self.map read-locked: a get, or a compaction scan
MapReaders == {t \in Threads : pc[t] = "get_locked"}
Scanners == {c \in DOMAIN comp : comp[c].phase = "scanned"}

\* a thread that panicked while it held a guard has poisoned the lock:
\* every later lock().unwrap(), read().unwrap() or write().unwrap() panics
WriterPoisoned == \E t \in Threads : pc[t] = "set_panicked"
MapPoisoned == \E t \in Threads : pc[t] = "rm_panicked"

\* a writer mutex that excludes nobody
WriterFreeAlways == TRUE

\* self.writer.lock() returns
WriterFree == WriterHolders = {} /\ ~WriterPoisoned
\* self.map.write() returns
MapFreeForWrite ==
    MapWriters = {} /\ MapReaders = {} /\ Scanners = {} /\ ~MapPoisoned
\* self.map.read() returns
MapFreeForRead == MapWriters = {} /\ ~MapPoisoned

-----------------------------------------------------------------------------
(* A call begins when its first lock is granted; a caller that still waits  *)
(* for that lock has changed nothing and is shown as idle.                  *)

Begin(t, type, k, v, at) ==
    /\ pc[t] = "idle"
    /\ op' = [op EXCEPT ![t] = [type |-> type, key |-> k, value |-> v]]
    /\ pc' = [pc EXCEPT ![t] = at]

Return(t) ==
    /\ pc' = [pc EXCEPT ![t] = "idle"]
    /\ op' = [op EXCEPT ![t] = NoOp]

-----------------------------------------------------------------------------
(* set *)

\* `*id += 2` on a u16 (wrapping, as a release build computes it)
RolloverId(i) == (i + 2) % U16

\* `*id > 0 && *id % self.config.compaction_thresh * 2 == 0`
CompactionDue(i) == i > 0 /\ (i % compaction_thresh) * 2 = 0

\* a thread that thread::spawn has just started: nothing scanned yet
Spawned ==
    [phase |-> "start", temp |-> <<>>, temp_map |-> EmptyMap, immutable_ids |-> {}]

\* a write through the append-mode writer followed by flush: the record goes
\* to the end of the segment the writer has open, and so does its position
Write(dir, w, rec) ==
    [files |-> IF w.seg \in DOMAIN dir
               THEN [dir EXCEPT ![w.seg] = Append(@, rec)]
               ELSE dir,
     writer |-> [seg |-> w.seg,
                 pos |-> (IF w.seg \in DOMAIN dir THEN Size(dir[w.seg]) ELSE w.pos)
                            + RecSize(rec)]]

\* an insert that only overwrites the keys the index already holds
SetIndexPresent(m, k, seg, off) ==
    IF k \in DOMAIN m THEN Insert(m, k, [path |-> seg, offset |-> off]) ELSE m

\* map.insert(key, FilePointer { path, offset })
SetIndex(m, k, seg, off) == Insert(m, k, [path |-> seg, offset |-> off])

\* kv.rs 61: set(key, value) is called; it waits for the writer
set_begin(t, k, v) ==
    /\ Begin(t, "set", k, v, "set_call")
    /\ issued' = [issued EXCEPT ![k] = @ \cup {v}]
    /\ UNCHANGED <<files, map, writer, id, offset, comp, model, removes>>

\* a caller of the engine calls set
set_call(t) ==
    /\ \E k \in Keys, v \in Values : set_begin(t, k, v)
    /\ ops' = ops + 1

\* kv.rs 62-91: lock the writer and the id, read the position and roll over
\* if the active segment is above the limit
set_lock_writer(t) ==
    /\ pc[t] = "set_call"
    /\ WriterFree
    /\ pc' = [pc EXCEPT ![t] = "set_locked"]
    /\ IF writer.pos > filesize_limit
       THEN /\ comp' = IF CompactionDue(id)
                       THEN [c \in DOMAIN comp \cup {id} |->
                               IF c = id THEN Spawned ELSE comp[c]]
                       ELSE comp
            /\ id' = RolloverId(id)
            /\ files' = Create(files, RolloverId(id))
            /\ writer' = [seg |-> RolloverId(id), pos |-> 0]
            /\ offset' = [offset EXCEPT ![t] = 0]
       ELSE /\ offset' = [offset EXCEPT ![t] = writer.pos]
            /\ UNCHANGED <<comp, id, files, writer>>
    /\ UNCHANGED <<map, op, model, issued, removes, ops>>

\* kv.rs 84 in a build with overflow checks: `*id += 2` panics at the top of
\* the u16 range, with the writer and the id locked (and the compaction
\* thread of line 71 already spawned)
set_overflow(t) ==
    /\ pc[t] = "set_call"
    /\ WriterFree
    /\ writer.pos > filesize_limit
    /\ id + 2 >= U16
    /\ comp' = IF CompactionDue(id)
               THEN [c \in DOMAIN comp \cup {id} |->
                       IF c = id THEN Spawned ELSE comp[c]]
               ELSE comp
    /\ pc' = [pc EXCEPT ![t] = "set_panicked"]
    /\ UNCHANGED <<files, map, writer, id, op, offset, model, issued, removes,
                   ops>>

\* kv.rs 62: self.writer.lock().unwrap() on the poisoned writer
set_poisoned(t) ==
    /\ pc[t] = "set_call"
    /\ WriterPoisoned
    /\ pc' = [pc EXCEPT ![t] = "panicked"]
    /\ UNCHANGED <<files, map, writer, id, op, offset, comp, model, issued,
                   removes, ops>>

\* kv.rs 92-109: lock the index, append, flush, insert, return
set_lock_map(t) ==
    /\ pc[t] = "set_locked"
    /\ MapFreeForWrite
    /\ LET a == Write(files, writer, SetCmd(op[t].key, op[t].value))
       IN  /\ files' = a.files
           /\ writer' = a.writer
    /\ map' = SetIndex(map, op[t].key, id, offset[t])
    /\ model' = [model EXCEPT ![op[t].key] = op[t].value]
    /\ Return(t)
    /\ UNCHANGED <<id, offset, comp, issued, removes, ops>>

-----------------------------------------------------------------------------
(* get *)

\* kv.rs 125-126: get(key) takes the index read lock
get_begin(t, k) ==
    /\ MapFreeForRead
    /\ Begin(t, "get", k, "", "get_locked")
    /\ UNCHANGED <<files, map, writer, id, offset, comp, model, issued, removes>>

\* a caller of the engine calls get
get_lock(t) ==
    /\ \E k \in Keys : get_begin(t, k)
    /\ UNCHANGED ops

\* the value a get that holds the read lock returns
GetRet(t) == get(map, files, op[t].key)

\* kv.rs 127-141: look the key up, read its record, return GetRet(t)
get_read(t) ==
    /\ pc[t] = "get_locked"
    /\ Return(t)
    /\ UNCHANGED <<files, map, writer, id, offset, comp, model, issued, removes,
                   ops>>

-----------------------------------------------------------------------------
(* remove *)

\* a remove that appends its record without looking the key up
removeUnchecked(m, dir, w, k) ==
    LET a == Write(dir, w, RmCmd(k))
    IN  [files |-> a.files, writer |-> a.writer, map |-> Delete(m, k),
         ret |-> "ok"]

\* kv.rs 160-173: the match under both locks
remove(m, dir, w, k) ==
    IF k \in DOMAIN m
    THEN LET a == Write(dir, w, RmCmd(k))
         IN  [files |-> a.files, writer |-> a.writer, map |-> Delete(m, k),
              ret |-> "ok"]
    ELSE [files |-> dir, writer |-> w, map |-> m, ret |-> "KeyNotFound"]

\* kv.rs 157-158: remove(key) takes the index write lock
remove_begin(t, k) ==
    /\ MapFreeForWrite
    /\ Begin(t, "remove", k, "", "rm_locked")
    /\ removes' = TRUE
    /\ UNCHANGED <<files, map, writer, id, offset, comp, model, issued>>

\* a caller of the engine calls remove
remove_lock_map(t) ==
    /\ \E k \in Keys : remove_begin(t, k)
    /\ ops' = ops + 1

\* the result a remove that holds the index lock returns
RemoveRet(t) == remove(map, files, writer, op[t].key).ret

\* kv.rs 159-174: lock the writer, run the match, return RemoveRet(t)
remove_lock_writer(t) ==
    /\ pc[t] = "rm_locked"
    /\ WriterFree
    /\ LET r == remove(map, files, writer, op[t].key)
       IN  /\ files' = r.files
           /\ writer' = r.writer
           /\ map' = r.map
           /\ model' = IF r.ret = "ok" THEN [model EXCEPT ![op[t].key] = Removed]
                       ELSE model
    /\ Return(t)
    /\ UNCHANGED <<id, offset, comp, issued, removes, ops>>

\* kv.rs 159: self.writer.lock().unwrap() on the poisoned writer, with the
\* index write-locked
remove_poisoned(t) ==
    /\ pc[t] = "rm_locked"
    /\ WriterPoisoned
    /\ pc' = [pc EXCEPT ![t] = "rm_panicked"]
    /\ UNCHANGED <<files, map, writer, id, op, offset, comp, model, issued,
                   removes, ops>>

-----------------------------------------------------------------------------
(* compaction: compact, then merge, on a thread of its own *)

\* the Set records of segment `seg` the index points at (kv.rs 226-247)
RECURSIVE Live(_, _, _, _)
Live(m, seg, recs, n) ==
    IF n > Len(recs) THEN <<>>
    ELSE (IF /\ recs[n].cmd = "Set"
             /\ recs[n].key \in DOMAIN m
             /\ m[recs[n].key].path = seg
             /\ m[recs[n].key].offset = StartOffset(recs, n)
          THEN <<recs[n]>> ELSE <<>>) \o Live(m, seg, recs, n + 1)

RECURSIVE Copied(_, _, _)
Copied(m, dir, order) ==
    IF order = <<>> THEN <<>>
    ELSE Live(m, Head(order), dir[Head(order)], 1) \o Copied(m, dir, Tail(order))

\* temp_map: every copied key -> where its record starts in the temp file
RECURSIVE TempMap(_, _, _)
TempMap(tm, temp, n) ==
    IF n > Len(temp) THEN tm
    ELSE TempMap(Insert(tm, temp[n].key,
                        [path |-> "temp", offset |-> StartOffset(temp, n)]),
                 temp, n + 1)

\* the segments compact reads: `id <= max_id`
Inputs(dir, max_id) == {i \in DOMAIN dir : i <= max_id}

\* KvStore::compact with read_dir listing the segments in `order`
compact(m, dir, max_id, order) ==
    LET temp == Copied(m, dir, order)
    IN  [phase |-> "scanned",
         temp |-> temp,
         temp_map |-> TempMap(EmptyMap, temp, 1),
         immutable_ids |-> Inputs(dir, max_id)]

\* kv.rs 215-251: take the index read lock and scan
compact_scan(c) ==
    /\ c \in DOMAIN comp
    /\ comp[c].phase = "start"
    /\ MapFreeForRead
    /\ \E order \in Orders({i \in Inputs(files, c) : Live(map, i, files[i], 1) # <<>>}) :
          comp' = [comp EXCEPT ![c] = compact(map, files, c, order)]
    /\ UNCHANGED <<files, map, writer, id, pc, op, offset, model, issued,
                   removes, ops>>

\* the id merge is called with: `max_id + 1`
MergedId(max_id) == (max_id + 1) % U16

\* kv.rs 252, 262-263: compact returns (the read lock is dropped) and merge
\* renames the temp file to the merged segment
merge_rename(c) ==
    /\ c \in DOMAIN comp
    /\ comp[c].phase = "scanned"
    /\ files' = [i \in DOMAIN files \cup {MergedId(c)} |->
                   IF i = MergedId(c) THEN comp[c].temp ELSE files[i]]
    /\ comp' = [comp EXCEPT ![c].phase = "renamed"]
    /\ UNCHANGED <<map, writer, id, pc, op, offset, model, issued, removes,
                   ops>>

\* a loop over temp_map that rewrites every copied key, superseded or not
MergeIndexAll(m, temp_map, nid) ==
    [k \in DOMAIN m \cup DOMAIN temp_map |->
        IF k \in DOMAIN temp_map
        THEN [path |-> nid, offset |-> temp_map[k].offset]
        ELSE m[k]]

\* kv.rs 265-280: the loop over temp_map
MergeIndex(m, temp_map, nid) ==
    [k \in DOMAIN m \cup DOMAIN temp_map |->
        IF k \in DOMAIN temp_map /\ ~(k \in DOMAIN m /\ m[k].path > nid)
        THEN [path |-> nid, offset |-> temp_map[k].offset]
        ELSE m[k]]

\* kv.rs 281-283: remove_file in HashSet order, stopping at the first failure
Unlinked(dir, ids) ==
    IF ids \subseteq DOMAIN dir THEN {ids}
    ELSE SUBSET (ids \cap DOMAIN dir)

\* kv.rs 264-284: take the index write lock, patch the index, unlink the inputs
merge_publish(c) ==
    /\ c \in DOMAIN comp
    /\ comp[c].phase = "renamed"
    /\ MapFreeForWrite
    /\ map' = MergeIndex(map, comp[c].temp_map, MergedId(c))
    /\ \E gone \in Unlinked(files, comp[c].immutable_ids) :
          files' = [i \in DOMAIN files \ gone |-> files[i]]
    /\ comp' = [x \in DOMAIN comp \ {c} |-> comp[x]]
    /\ UNCHANGED <<writer, id, pc, op, offset, model, issued, removes, ops>>

\* kv.rs 215: self.map.read().unwrap() on the poisoned index
compact_poisoned(c) ==
    /\ c \in DOMAIN comp
    /\ comp[c].phase = "start"
    /\ MapPoisoned
    /\ comp' = [x \in DOMAIN comp \ {c} |-> comp[x]]
    /\ UNCHANGED <<files, map, writer, id, pc, op, offset, model, issued,
                   removes, ops>>

\* kv.rs 264: self.map.write().unwrap() on the poisoned index, after the rename
merge_poisoned(c) ==
    /\ c \in DOMAIN comp
    /\ comp[c].phase = "renamed"
    /\ MapPoisoned
    /\ comp' = [x \in DOMAIN comp \ {c} |-> comp[x]]
    /\ UNCHANGED <<files, map, writer, id, pc, op, offset, model, issued,
                   removes, ops>>

-----------------------------------------------------------------------------
(* closing the engine and opening it again on the same directory *)

Quiescent == (\A t \in Threads : pc[t] = "idle") /\ DOMAIN comp = {}

reopen ==
    /\ Quiescent
    /\ LET st == open(files)
       IN  /\ files' = st.files
           /\ map' = st.map
           /\ writer' = st.writer
           /\ id' = st.id
           /\ model' = [k \in Keys |-> get(st.map, st.files, k)]
    /\ UNCHANGED <<pc, op, offset, comp, issued, removes, ops>>
    /\ UNCHANGED <<net, pool, boot>>

\* kv.rs 186-203: KvStore::open is called on the store directory `files` by a
\* process that has no engine yet; its threads can then call the engine
open_dir ==
    /\ \A t \in Threads : pc[t] = "closed"
    /\ LET st == open(files)
       IN  /\ files' = st.files
           /\ map' = st.map
           /\ writer' = st.writer
           /\ id' = st.id
           /\ model' = [k \in Keys |-> get(st.map, st.files, k)]
    /\ pc' = [t \in Threads |-> "idle"]
    /\ UNCHANGED <<op, offset, comp, issued, removes, ops>>
    /\ UNCHANGED <<net, pool, boot>>

\* the records a segment can hold
Recs == {SetCmd(k, v) : k \in Keys, v \in Values} \cup {RmCmd(k) : k \in Keys}

\* the ids of the segments of a stored directory
SegIds == {0, 2}

\* the store directories: any segments of at most MaxRecs records
Dirs ==
    UNION {[S -> UNION {[1..n -> Recs] : n \in 0..MaxRecs}] : S \in SUBSET SegIds}

\* a store directory and a process that has not opened it yet
InitOpen ==
    /\ files \in Dirs
    /\ map = EmptyMap
    /\ writer = [seg |-> 0, pos |-> 0]
    /\ id = 0
    /\ model = [k \in Keys |-> None]
    /\ issued = [k \in Keys |-> UNION {ValuesIn(files[i], k) : i \in DOMAIN files}]
    /\ pc = [t \in Threads |-> "closed"]
    /\ op = [t \in Threads |-> NoOp]
    /\ offset = [t \in Threads |-> 0]
    /\ comp = EmptyMap
    /\ removes = FALSE
    /\ ops = 0
    /\ clients = [c \in Clients |-> Idle]
    /\ backlog = <<>>
    /\ acked = [k \in Keys |-> Unknown]
    /\ pool = NewPool
    /\ boot = Down

NextOpen == open_dir

SpecOpen == InitOpen /\ [][NextOpen]_vars

-----------------------------------------------------------------------------

\* a set or a remove may begin while fewer than n have begun
Step(t, n) ==
    \/ ops < n /\ set_call(t) /\ UNCHANGED <<net, pool, boot>>
    \/ ops < n /\ remove_lock_map(t) /\ UNCHANGED <<net, pool, boot>>
    \/ set_lock_writer(t) /\ UNCHANGED <<net, pool, boot>>
    \/ set_lock_map(t) /\ UNCHANGED <<net, pool, boot>>
    \/ get_lock(t) /\ UNCHANGED <<net, pool, boot>>
    \/ get_read(t) /\ UNCHANGED <<net, pool, boot>>
    \/ remove_lock_writer(t) /\ UNCHANGED <<net, pool, boot>>

Compaction(c) ==
    \/ compact_scan(c) /\ UNCHANGED <<net, pool, boot>>
    \/ merge_rename(c) /\ UNCHANGED <<net, pool, boot>>
    \/ merge_publish(c) /\ UNCHANGED <<net, pool, boot>>

Next ==
    \/ \E t \in Threads : Step(t, MaxOps)
    \/ \E c \in DOMAIN comp : Compaction(c)
    \/ reopen

Spec == Init /\ [][Next]_vars

\* the same engine, one call deeper
NextDeep ==
    \/ \E t \in Threads : Step(t, MaxDeepOps)
    \/ \E c \in DOMAIN comp : Compaction(c)
    \/ reopen

SpecDeep == Init /\ [][NextDeep]_vars

\* the panics of a build with overflow checks once the id is at the top of
\* the u16 range (with two callers, none is left to call get or remove once
\* the index is poisoned)
Panic(t) ==
    \/ set_overflow(t) /\ UNCHANGED <<net, pool, boot>>
    \/ set_poisoned(t) /\ UNCHANGED <<net, pool, boot>>
    \/ remove_poisoned(t) /\ UNCHANGED <<net, pool, boot>>

CompactionPanic(c) ==
    \/ compact_poisoned(c) /\ UNCHANGED <<net, pool, boot>>
    \/ merge_poisoned(c) /\ UNCHANGED <<net, pool, boot>>

\* the engine on a directory whose ids are about to run out: Next, where the
\* id stays far below 2^16, has none of the panics
NextWrap ==
    \/ Next
    \/ \E t \in Threads : Panic(t)
    \/ \E c \in DOMAIN comp : CompactionPanic(c)

SpecWrap == InitWrap /\ [][NextWrap]_vars

-----------------------------------------------------------------------------
(* an I/O error in the append or the flush of set and remove, and in the    *)
(* rename of merge                                                          *)

\* kv.rs 99-100, 167-168: serde_json::to_writer or writer.flush returned an
\* error. The bytes handed to the BufWriter have reached the segment (the
\* error came after the write, or the next flush of the buffer writes them)
\* or they have not (the process ends, or a rollover drops the writer, first)
FailedWrite(dir, w, rec, landed) ==
    IF landed THEN Write(dir, w, rec) ELSE [files |-> dir, writer |-> w]

\* an append whose error comes after the insert
SetFailedIndexInserted(m, k, seg, off) == SetIndex(m, k, seg, off)

\* kv.rs 99-102: `?` returns before map.insert is reached
SetFailedIndex(m, k, seg, off) == m

\* kv.rs 92-100: lock the index, append or flush fails, return the error
\* (both guards are dropped by the return)
set_io_error(t) ==
    /\ pc[t] = "set_locked"
    /\ MapFreeForWrite
    /\ \E landed \in BOOLEAN :
         LET a == FailedWrite(files, writer,
                              SetCmd(op[t].key, op[t].value), landed)
         IN  /\ files' = a.files
             /\ writer' = a.writer
    /\ map' = SetFailedIndex(map, op[t].key, id, offset[t])
    /\ pc' = [pc EXCEPT ![t] = "set_failed"]
    /\ UNCHANGED <<id, op, offset, comp, model, issued, removes, ops>>

\* kv.rs 159-168: lock the writer, the key is in the index, append or flush
\* fails, return the error before map.remove
remove_io_error(t) ==
    /\ pc[t] = "rm_locked"
    /\ WriterFree
    /\ op[t].key \in DOMAIN map
    /\ \E landed \in BOOLEAN :
         LET a == FailedWrite(files, writer, RmCmd(op[t].key), landed)
         IN  /\ files' = a.files
             /\ writer' = a.writer
    /\ pc' = [pc EXCEPT ![t] = "rm_failed"]
    /\ UNCHANGED <<map, id, op, offset, comp, model, issued, removes, ops>>

\* the caller has the Err of set or remove in hand and goes on
io_error_return(t) ==
    /\ pc[t] \in {"set_failed", "rm_failed"}
    /\ Return(t)
    /\ UNCHANGED <<files, map, writer, id, offset, comp, model, issued,
                   removes, ops>>

\* kv.rs 263, 79-81: rename fails, merge returns the error before it locks
\* the index and `.expect("Could not merge files")` ends the compaction
\* thread; the temp file is deleted when the thread unwinds
merge_rename_error(c) ==
    /\ c \in DOMAIN comp
    /\ comp[c].phase = "scanned"
    /\ comp' = [d \in DOMAIN comp \ {c} |-> comp[d]]
    /\ UNCHANGED <<files, map, writer, id, pc, op, offset, model, issued,
                   removes, ops>>

IoError(t) ==
    \/ set_io_error(t) /\ UNCHANGED <<net, pool, boot>>
    \/ remove_io_error(t) /\ UNCHANGED <<net, pool, boot>>
    \/ io_error_return(t) /\ UNCHANGED <<net, pool, boot>>

\* calls begun on the disk whose writes may fail
MaxIoOps == 2

\* the engine on a disk whose writes and renames may fail
NextIo ==
    \/ \E t \in Threads : Step(t, MaxIoOps)
    \/ \E c \in DOMAIN comp : Compaction(c)
    \/ reopen
    \/ \E t \in Threads : IoError(t)
    \/ \E c \in DOMAIN comp : merge_rename_error(c) /\ UNCHANGED <<net, pool, boot>>

SpecIo == Init /\ [][NextIo]_vars

-----------------------------------------------------------------------------
(* a stop of the process while a compaction publishes *)

\* the process stops: its threads and its compactions are gone, the store
\* directory stays, and `map` keeps the index of the moment of the stop
Stopped ==
    /\ pc' = [t \in Threads |-> "closed"]
    /\ op' = [t \in Threads |-> NoOp]
    /\ comp' = EmptyMap
    /\ UNCHANGED <<writer, id, offset, model, issued, removes, ops>>
    /\ UNCHANGED <<net, pool, boot>>

\* the process stops in merge before the rename of kv.rs 263
stop_before_rename(c) ==
    /\ comp[c].phase = "scanned"
    /\ UNCHANGED <<files, map>>
    /\ Stopped

\* the process stops in merge after the rename and before the index is
\* patched (kv.rs 263-264)
stop_after_rename(c) ==
    /\ comp[c].phase = "renamed"
    /\ UNCHANGED <<files, map>>
    /\ Stopped

\* the process stops in merge after the index is patched and any of the
\* inputs have been unlinked (kv.rs 265-283; the HashSet is walked in any order)
stop_in_unlink(c) ==
    /\ comp[c].phase = "renamed"
    /\ MapFreeForWrite
    /\ map' = MergeIndex(map, comp[c].temp_map, MergedId(c))
    /\ \E gone \in SUBSET (comp[c].immutable_ids \cap DOMAIN files) :
          files' = [i \in DOMAIN files \ gone |-> files[i]]
    /\ Stopped

Stop(c) ==
    \/ stop_before_rename(c)
    \/ stop_after_rename(c)
    \/ stop_in_unlink(c)

\* the engine, a stop of the process inside a publication, and the next open
NextCrash ==
    \/ Next
    \/ \E c \in DOMAIN comp : Stop(c)
    \/ open_dir

SpecCrash == Init /\ [][NextCrash]_vars

-----------------------------------------------------------------------------
(* The server and its clients: one request and one response per connection *)

\* the requests a KvsClient writes (client.rs 22-26, 39-43, 59-63)
Requests ==
    {[type |-> "set", key |-> k, value |-> v] : k \in Keys, v \in NetValues}
        \cup {[type |-> ty, key |-> k, value |-> ""] :
                 ty \in {"get", "remove"}, k \in Keys}

IsWrite(r) == r.type \in {"set", "remove"}

\* the clients whose request has been written and whose response has not
\* been read yet
Pending == {c \in Clients : clients[c].st \in {"sent", "replied"}}

\* client.rs 15-18: KvsClient::new connects; the connection queues at the listener
client_connect(c) ==
    /\ clients[c].st = "idle"
    /\ clients' = [clients EXCEPT ![c].st = "connected"]
    /\ backlog' = Append(backlog, c)
    /\ UNCHANGED <<files, map, writer, id, pc, op, offset, comp, model, issued,
                   removes, ops, acked, pool, boot>>

\* client.rs 27, 44, 64: the request is written to the stream. A get notes
\* the value an acknowledged set left for its key; a write takes that
\* knowledge from the requests it overlaps with
client_send(c) ==
    /\ clients[c].st = "connected"
    /\ \E r \in Requests :
          /\ IsWrite(r) => ops < MaxNetOps
          /\ ops' = IF IsWrite(r) THEN ops + 1 ELSE ops
          /\ acked' = IF IsWrite(r) THEN [acked EXCEPT ![r.key] = Unknown]
                      ELSE acked
          /\ clients' =
                [d \in Clients |->
                    IF d = c
                    THEN [st |-> "sent", req |-> r, resp |-> NoResp,
                          expect |-> IF IsWrite(r) THEN Unknown ELSE acked[r.key],
                          clean |-> IsWrite(r) /\
                                    \A e \in Pending :
                                       ~(IsWrite(clients[e].req) /\
                                         clients[e].req.key = r.key)]
                    ELSE IF /\ IsWrite(r)
                            /\ d \in Pending
                            /\ clients[d].req.key = r.key
                    THEN [clients[d] EXCEPT
                             !.clean = FALSE,
                             !.expect = IF clients[d].st = "sent" THEN Unknown
                                        ELSE @]
                    ELSE clients[d]]
    /\ UNCHANGED <<files, map, writer, id, pc, op, offset, comp, model, issued,
                   removes, backlog, pool, boot>>

\* server.rs 41-49, 66, 83: the accept loop takes the oldest connection, reads
\* its request and calls the engine
server_accept ==
    /\ pc[Server] = "idle"
    /\ backlog # <<>>
    /\ clients[Head(backlog)].st = "sent"
    /\ LET r == clients[Head(backlog)].req
       IN  \/ r.type = "set" /\ set_begin(Server, r.key, r.value)
           \/ r.type = "get" /\ get_begin(Server, r.key)
           \/ r.type = "remove" /\ remove_begin(Server, r.key)
    /\ UNCHANGED <<ops, clients, backlog, acked, pool, boot>>

\* server.rs 50-56, 67-73: the status byte 0 and a ValueResponse "OK"
OkReply == [status |-> 0, value |-> "OK", error |-> None]
\* server.rs 57-64, 74-81, 99-106: the status byte 1 and an ErrorResponse
ErrReply(e) == [status |-> 1, value |-> None, error |-> e]

\* a response to a get that reports every key as absent
GetReplyAbsent(ret) == [status |-> 0, value |-> "", error |-> None]

\* server.rs 83-107: the response to a get
GetReply(ret) ==
    IF ret = Err THEN ErrReply("IoError")
    ELSE IF ret = None THEN [status |-> 0, value |-> "", error |-> None]
    ELSE [status |-> 0, value |-> ret, error |-> None]

\* a server that answers every remove with "OK"
RemoveReplyOk(ret) == OkReply

\* server.rs 66-82: the response to a remove
RemoveReply(ret) == IF ret = "ok" THEN OkReply ELSE ErrReply("Key not found")

\* the response is written to the connection being served, which is dropped
Reply(resp) ==
    /\ clients' = [clients EXCEPT ![Head(backlog)].st = "replied",
                                  ![Head(backlog)].resp = resp]
    /\ backlog' = Tail(backlog)
    /\ UNCHANGED <<acked, pool, boot>>

\* a client whose get hands the value of the response on as it is
ClientResultRaw(type, resp) ==
    IF resp.status = 1 THEN [error |-> resp.error] ELSE resp.value

\* client.rs 28-35, 45-55, 65-72: what the client call returns for a response
ClientResult(type, resp) ==
    IF resp.status = 1 THEN [error |-> resp.error]
    ELSE IF type = "get" /\ resp.value = "" THEN None
    ELSE resp.value

\* client.rs 28-35, 45-55, 65-72: the client reads the response and returns.
\* A set that overlapped no other write of its key and was answered "OK" has
\* left its value for the key
client_recv(c) ==
    /\ clients[c].st = "replied"
    /\ acked' = IF /\ clients[c].req.type = "set"
                   /\ clients[c].clean
                   /\ clients[c].resp.status = 0
                THEN [acked EXCEPT ![clients[c].req.key] = clients[c].req.value]
                ELSE acked
    /\ clients' = [clients EXCEPT ![c] = Idle]
    /\ UNCHANGED <<files, map, writer, id, pc, op, offset, comp, model, issued,
                   removes, ops, backlog, pool, boot>>

Client(c) ==
    \/ client_connect(c)
    \/ client_send(c)
    \/ client_recv(c)

\* KvsServer::start on its one thread: each engine call runs to its return,
\* then the response is written
Serve ==
    \/ server_accept
    \/ set_lock_writer(Server) /\ UNCHANGED <<net, pool, boot>>
    \/ set_lock_map(Server) /\ Reply(OkReply)
    \/ get_read(Server) /\ Reply(GetReply(GetRet(Server)))
    \/ remove_lock_writer(Server) /\ Reply(RemoveReply(RemoveRet(Server)))

NextNet ==
    \/ \E c \in Clients : Client(c)
    \/ Serve
    \/ \E c \in DOMAIN comp : Compaction(c)

SpecNet == Init /\ [][NextNet]_vars

\* client.rs 15-18: a KvsClient is created and dropped without a call; the
\* connection is closed with no request written
client_drop(c) ==
    /\ clients[c].st = "connected"
    /\ clients' = [clients EXCEPT ![c].st = "dropped"]
    /\ UNCHANGED <<engine, backlog, acked, pool, boot>>

\* server.rs 45-46: the request cannot be decoded from the oldest connection;
\* the `?` returns the error from start, which ends the accept loop and drops
\* the listener with the connections that wait in it
server_decode_error ==
    /\ pc[Server] = "idle"
    /\ backlog # <<>>
    /\ clients[Head(backlog)].st = "dropped"
    /\ pc' = [pc EXCEPT ![Server] = "returned"]
    /\ clients' = [clients EXCEPT ![Head(backlog)] = Idle]
    /\ backlog' = Tail(backlog)
    /\ UNCHANGED <<files, map, writer, id, op, offset, comp, model, issued,
                   removes, ops, acked, pool, boot>>

NextDrop ==
    \/ NextNet
    \/ \E c \in Clients : client_drop(c)
    \/ server_decode_error

SpecDrop == Init /\ [][NextDrop]_vars

-----------------------------------------------------------------------------
(* SharedQueueThreadPool: a channel of jobs and the threads that drain it *)

\* the jobs a caller passes to spawn: one that returns, one that panics
JobKinds == {"ok", "panic"}

\* the threads of the pool that have not returned: waiting in recv, running a
\* job, or unwinding from a job that panicked
Workers == DOMAIN pool.workers

\* thread_pool.rs 51-59: spawn sends the boxed job on the channel. With no
\* receiver left the send fails, the expect panics in the caller, and the
\* caller's unwinding drops the pool
pool_spawn ==
    /\ pool.open
    /\ pool.passed < MaxJobs
    /\ \E kind \in JobKinds :
          LET j == pool.passed + 1
              passed == [pool EXCEPT
                            !.passed = j,
                            !.bad = IF kind = "panic" THEN @ \cup {j} ELSE @,
                            !.late = IF pool.panics > 0 THEN @ \cup {j} ELSE @]
          IN  pool' = IF Workers # {}
                      THEN [passed EXCEPT !.queue = Append(@, [id |-> j])]
                      ELSE [passed EXCEPT !.open = FALSE]
    /\ UNCHANGED <<engine, net, boot>>

\* a channel that hands a job to a receiver and keeps it for the next one
ReceivedKept(q) == q

\* thread_pool.rs 78: rx.0.recv() takes the oldest message off the channel
Received(q) == Tail(q)

\* thread_pool.rs 76-80: a waiting worker receives the oldest job and calls it
worker_recv(w) ==
    /\ pool.workers[w].st = "idle"
    /\ pool.queue # <<>>
    /\ pool' = [pool EXCEPT
                   !.queue = Received(@),
                   !.workers[w] = [st |-> "running", job |-> Head(pool.queue).id],
                   !.runs[Head(pool.queue).id] = @ + 1]
    /\ UNCHANGED <<engine, net, boot>>

\* the job is a closure that panics when it is called
JobPanics(j) == j \in pool.bad

\* a thread that stays on the closed channel instead of returning
Lingering(ws, w) == ws

\* the thread of worker w has returned
Exited(ws, w) == [v \in DOMAIN ws \ {w} |-> ws[v]]

\* a worker whose job returned leaves the pool instead of looping
ResumedNever(ws, w) == Exited(ws, w)

\* thread_pool.rs 77-80: the job returned; the loop goes back to recv
Resumed(ws, w) == [ws EXCEPT ![w] = [st |-> "idle", job |-> 0]]

\* thread_pool.rs 79: the job returns
worker_done(w) ==
    /\ pool.workers[w].st = "running"
    /\ ~JobPanics(pool.workers[w].job)
    /\ pool' = [pool EXCEPT !.workers = Resumed(@, w)]
    /\ UNCHANGED <<engine, net, boot>>

\* thread_pool.rs 79: the job panics; the worker thread starts to unwind
worker_panic(w) ==
    /\ pool.workers[w].st = "running"
    /\ JobPanics(pool.workers[w].job)
    /\ pool' = [pool EXCEPT !.workers[w].st = "unwinding",
                            !.panics = @ + 1]
    /\ UNCHANGED <<engine, net, boot>>

\* a drop that lets the panicking thread go without starting another
ReplacedNever(ws, w, n) == Exited(ws, w)

\* thread_pool.rs 65-74: TaskReceiver::drop on a panicking thread clones the
\* receiver and starts thread n on it; the panicking thread is gone
Replaced(ws, w, n) ==
    [v \in (DOMAIN ws \ {w}) \cup {n} |->
        IF v = n THEN [st |-> "idle", job |-> 0] ELSE ws[v]]

\* thread_pool.rs 65-74: the unwinding thread drops its TaskReceiver
worker_drop(w) ==
    /\ pool.workers[w].st = "unwinding"
    /\ pool' = [pool EXCEPT !.workers = Replaced(@, w, pool.spawned + 1),
                            !.spawned = @ + 1]
    /\ UNCHANGED <<engine, net, boot>>

\* thread_pool.rs 81-84: recv fails once the sender is dropped and the channel
\* is empty; the worker returns, and its TaskReceiver is dropped without a
\* panic in progress
worker_exit(w) ==
    /\ pool.workers[w].st = "idle"
    /\ ~pool.open
    /\ pool.queue = <<>>
    /\ pool' = [pool EXCEPT !.workers = Exited(@, w)]
    /\ UNCHANGED <<engine, net, boot>>

\* the owner drops the pool, and with it the only sender of the channel
pool_drop ==
    /\ pool.open
    /\ pool' = [pool EXCEPT !.open = FALSE]
    /\ UNCHANGED <<engine, net, boot>>

Worker(w) ==
    \/ worker_recv(w)
    \/ worker_done(w)
    \/ worker_panic(w)
    \/ worker_drop(w)
    \/ worker_exit(w)

NextPool ==
    \/ pool_spawn
    \/ pool_drop
    \/ \E w \in Workers : Worker(w)

\* a thread that can take a step is scheduled in the end
SpecPool ==
    /\ Init
    /\ [][NextPool]_vars
    /\ WF_vars(\E w \in Workers : Worker(w))

-----------------------------------------------------------------------------
(* kvs-server: the engine is chosen at startup and kept in a marker file *)

\* bin/server.rs 25-31: the engine a marker file in ./engine names, "" if none
Detect(markers) ==
    IF "kvs" \in markers THEN "kvs"
    ELSE IF "sled" \in markers THEN "sled"
    ELSE ""

\* bin/server.rs 23-31: main is entered with --engine req (None when the option
\* is not given), creates ./engine and looks for a marker
boot_detect ==
    /\ boot.pos \in {"down", "exited", "running"}
    /\ boot.starts < MaxStarts
    /\ \E req \in Engines \cup {None} :
          boot' = [boot EXCEPT !.pos = "detected",
                               !.req = req,
                               !.engine = Detect(boot.markers),
                               !.exit = 0,
                               !.starts = @ + 1]
    /\ UNCHANGED <<engine, net, pool>>

\* a match that takes the engine asked for whenever one is given
MatchAsked(found, req) ==
    IF req # None THEN [engine |-> req, exit |-> 0]
    ELSE IF found = "" THEN [engine |-> "kvs", exit |-> 0]
    ELSE [engine |-> found, exit |-> 0]

\* bin/server.rs 33-47: the engine after the match on --engine, and the exit
\* code when the process exits in it
Match(found, req) ==
    IF req # None
    THEN IF found = "" THEN [engine |-> req, exit |-> 0]
         ELSE IF found # req THEN [engine |-> found, exit |-> 1]
         ELSE [engine |-> found, exit |-> 0]
    ELSE IF found = "" THEN [engine |-> "kvs", exit |-> 0]
    ELSE [engine |-> found, exit |-> 0]

\* bin/server.rs 33-47
boot_match ==
    /\ boot.pos = "detected"
    /\ LET m == Match(boot.engine, boot.req)
       IN  boot' = [boot EXCEPT
                       !.pos = IF m.exit = 0 THEN "matched" ELSE "exited",
                       !.engine = m.engine,
                       !.exit = m.exit]
    /\ UNCHANGED <<engine, net, pool>>

\* bin/server.rs 49-104: the marker file of the engine is created or
\* truncated; then the server runs on that engine, or main returns the error
\* of --threads, of opening the engine or of creating the pool
boot_persist ==
    /\ boot.pos = "matched"
    /\ \E ok \in BOOLEAN :
          boot' = [boot EXCEPT !.pos = IF ok THEN "running" ELSE "exited",
                               !.exit = IF ok THEN 0 ELSE 1,
                               !.markers = @ \cup {boot.engine}]
    /\ UNCHANGED <<engine, net, pool>>

NextBoot ==
    \/ boot_detect
    \/ boot_match
    \/ boot_persist

SpecBoot == Init /\ [][NextBoot]_vars

-----------------------------------------------------------------------------
(* What the engine contract expects of the calls in flight *)

\* what get(k) returns by the contract of KvsEngine: the value last set, or
\* None when the key was never set or was removed
Expect(k) == IF model[k] \in {None, Removed} THEN None ELSE model[k]

\* some compaction has published a merged segment (their ids are odd)
Merged == {i \in DOMAIN files : i % 2 = 1}

C2_RemoveThenGet ==
    \A t \in Threads :
        /\ (pc[t] = "get_locked" /\ model[op[t].key] = Removed)
              => GetRet(t) = None
        /\ (pc[t] = "rm_locked" /\ model[op[t].key] = Removed)
              => RemoveRet(t) = "KeyNotFound"

\* C3: every get returns what it returns when no compaction runs, which is
\* the value last written or None
C3_CompactionInvariance ==
    \A t \in Threads : pc[t] = "get_locked" => GetRet(t) = Expect(op[t].key)

\* C4: every index entry refers to an existing segment whose record at that
\* offset is a Set record of the same key
C4_IndexDiskAgreement ==
    \A k \in DOMAIN map :
        /\ map[k].path \in DOMAIN files
        /\ \E n \in RecordsAt(files[map[k].path], map[k].offset) :
              /\ files[map[k].path][n].cmd = "Set"
              /\ files[map[k].path][n].key = k

\* C5: closing the engine at a quiescent point and opening it again on the
\* same directory leaves the result of get unchanged for every key
C5_ReopenPreservesGet ==
    [][reopen => \A k \in Keys : get(map', files', k) = get(map, files, k)]_vars

Answer(c) == ClientResult(clients[c].req.type, clients[c].resp)

C10_FreshSegmentIds ==
    [][/\ \A c \in DOMAIN comp \cap DOMAIN comp' :
             (comp[c].phase = "scanned" /\ comp'[c].phase = "renamed")
                => MergedId(c) \notin DOMAIN files
       /\ \A t \in Threads :
             (pc[t] = "set_call" /\ pc'[t] = "set_locked" /\ id' # id)
                => /\ id' \notin DOMAIN files
                   /\ \A i \in DOMAIN files : i < id']_vars

\* C11: at most one compaction thread (scanning or publishing) exists at any
\* instant
C11_OneCompaction == Cardinality(DOMAIN comp) <= 1

\* C12: while a compaction holds the index read lock for its scan, a set that
\* holds the writer can take its last step (append and insert) and return
C12_SetDuringScan ==
    \A t \in Threads :
        (pc[t] = "set_locked" /\ Scanners # {}) => ENABLED set_lock_map(t)

C15_ServerKeepsServing == pc[Server] # "returned"

C18_AcceptWhileProcessing ==
    /\ pc[Server] # "idle"
    /\ Len(backlog) > 1
    /\ clients[backlog[2]].st = "sent"
    => ENABLED server_accept

\* C19: once a marker names an engine, no startup changes the markers; a
\* startup that asks for the other engine exits with code 1, and a startup
\* that reaches the server runs the engine of the marker
C19_StickyEngine ==
    [][LET kept == Detect(boot.markers)
       IN  kept # "" =>
              /\ boot'.markers = boot.markers
              /\ boot.pos = "detected" /\ boot.req \notin {None, kept}
                    => boot'.pos = "exited" /\ boot'.exit = 1
              /\ boot.pos = "detected" /\ boot.req \in {None, kept}
                    => boot'.pos = "matched"
              /\ boot'.pos = "running" => boot'.engine = kept]_vars

\* after a startup that persisted sled, a startup that asked for kvs has
\* exited and a later one with no --engine runs sled
C19_Witness ==
    /\ boot.markers = {"sled"}
    /\ boot.starts = 3
    /\ boot.pos = "running"
    /\ boot.req = None
    /\ boot.engine = "sled"

\* C20: the publication of compaction c rewrites the index entry of a copied
\* key only if the index still locates the key in a segment with id <= c; the
\* entry of every other key, and the absence of a key, is left as it is
C20_PublishOnlyCurrent ==
    [][\A c \in DOMAIN comp :
          comp[c].phase = "renamed" /\ c \notin DOMAIN comp' =>
             \A k \in Keys :
                IF /\ k \in DOMAIN comp[c].temp_map
                   /\ k \in DOMAIN map
                   /\ map[k].path <= c
                THEN /\ k \in DOMAIN map'
                     /\ map'[k] = [path |-> MergedId(c),
                                   offset |-> comp[c].temp_map[k].offset]
                ELSE /\ (k \in DOMAIN map') = (k \in DOMAIN map)
                     /\ k \in DOMAIN map => map'[k] = map[k]]_vars

\* C21: when compaction c publishes and the index locates a copied key in a
\* segment written by a set after the scan (a set segment that was not an
\* input of c), the publication leaves that entry alone and get still returns
\* the value of that set
C21_NewerWriteWins ==
    [][\A c \in DOMAIN comp :
          comp[c].phase = "renamed" /\ c \notin DOMAIN comp' =>
             \A k \in DOMAIN comp[c].temp_map \cap DOMAIN map :
                map[k].path \notin comp[c].immutable_ids /\ map[k].path % 2 = 0
                => /\ k \in DOMAIN map'
                   /\ map'[k] = map[k]
                   /\ get(map', files', k) = get(map, files, k)
                   /\ get(map, files, k) \in Values]_vars

\* C22: the writer is locked before the index is write-locked: a thread that
\* holds the index write lock inside an engine call holds the writer too
C22_WriterBeforeIndex == \A t \in MapWriters : t \in WriterHolders

\* C23: the threads never wait for each other's locks forever: while a call
\* or a compaction is in progress, one of those in progress can take its
\* next step
C23_NoDeadlock ==
    (\E t \in Threads : pc[t] # "idle") \/ DOMAIN comp # {}
    => \/ \E t \in Threads :
             \/ ENABLED set_lock_writer(t)
             \/ ENABLED set_lock_map(t)
             \/ ENABLED get_read(t)
             \/ ENABLED remove_lock_writer(t)
       \/ \E c \in DOMAIN comp :
             \/ ENABLED compact_scan(c)
             \/ ENABLED merge_rename(c)
             \/ ENABLED merge_publish(c)

\* C24: no record is appended to a segment whose size already exceeds
\* filesize_limit
C24_NoAppendAboveLimit ==
    [][\A i \in DOMAIN files \cap DOMAIN files' :
          Len(files'[i]) > Len(files[i]) => Size(files[i]) <= filesize_limit]_vars

\* C25: a compaction thread is started only by a step that rolls the active
\* segment over, and only when the new active id is a positive multiple of
\* compaction_thresh
C25_LaunchAtMultiple ==
    [][DOMAIN comp' \ DOMAIN comp # {} =>
          /\ id' # id
          /\ id' > 0
          /\ id' % compaction_thresh = 0]_vars

\* C26: a set that has locked the writer either keeps the active id or raises
\* it by exactly two, within 0..65535, and does not panic
C26_IdIncreases ==
    [][\A t \in Threads :
          pc[t] = "set_call" /\ pc'[t] # "set_call" =>
             /\ pc'[t] \notin {"set_panicked", "panicked"}
             /\ id' \in {id, id + 2}
             /\ id' < U16]_vars

\* where the records of key k are in a directory: <<segment id, number>>
Positions(dir, k) ==
    UNION {{<<i, n>> : n \in {n \in 1..Len(dir[i]) : dir[i][n].key = k}} :
              i \in DOMAIN dir}

\* the record of key k that comes last in ascending id order and file order
LastOf(dir, k) ==
    CHOOSE p \in Positions(dir, k) :
        \A q \in Positions(dir, k) :
            q[1] < p[1] \/ (q[1] = p[1] /\ q[2] <= p[2])

\* C27: after open, the index holds exactly the keys whose last record, in
\* ascending id order and file order, is a Set, each at the segment and the
\* starting offset of that record
C27_ReplayOrder ==
    [][(\A t \in Threads : pc[t] = "closed" /\ pc'[t] = "idle") =>
          \A k \in Keys :
             IF Positions(files, k) = {} THEN k \notin DOMAIN map'
             ELSE LET p == LastOf(files, k)
                  IN  IF files[p[1]][p[2]].cmd = "Set"
                      THEN /\ k \in DOMAIN map'
                           /\ map'[k] = [path |-> p[1],
                                         offset |-> StartOffset(files[p[1]], p[2])]
                      ELSE k \notin DOMAIN map']_vars

\* open has replayed a directory in which a is set and later removed in
\* another segment, and b is set twice in one segment
C27_Witness ==
    /\ \A t \in Threads : pc[t] = "idle"
    /\ files = (0 :> <<SetCmd("a", "v1"), SetCmd("b", "v1")>>)
                  @@ (2 :> <<RmCmd("a"), SetCmd("b", "v2")>>)
    /\ DOMAIN map = {"b"}
    /\ map["b"] = [path |-> 2, offset |-> RecSize(RmCmd("a"))]

\* C28: open makes the active segment id one greater than the highest id in
\* the directory, or zero in a directory without segments, and never writes
\* to a segment that is already there
C28_OpenNextId ==
    [][(\A t \in Threads : pc[t] = "closed" /\ pc'[t] = "idle") =>
          /\ id' = IF DOMAIN files = {} THEN 0 ELSE Max(DOMAIN files) + 1
          /\ writer'.seg = id'
          /\ writer'.seg \notin DOMAIN files]_vars

\* C29: when the process has stopped inside a publication, the index that
\* open then rebuilds gives, for every key, the get result that the index of
\* the moment of the stop gave
C29_CrashAtomicPublication ==
    [][(\A t \in Threads : pc[t] = "closed" /\ pc'[t] = "idle") =>
          \A k \in Keys : get(map', files', k) = get(map, files, k)]_vars

\* the bytes the segments S of a directory hold
RECURSIVE Bytes(_, _)
Bytes(dir, S) ==
    IF S = {} THEN 0
    ELSE LET i == CHOOSE x \in S : TRUE
         IN  Size(dir[i]) + Bytes(dir, S \ {i})

\* C30: when compaction c completes, every segment that fed it is unlinked,
\* and the segments up to the merged one hold no more bytes than the segments
\* up to c held before
C30_CompactionShrinks ==
    [][\A c \in DOMAIN comp :
          comp[c].phase = "renamed" /\ c \notin DOMAIN comp' =>
             /\ \A i \in comp[c].immutable_ids : i \notin DOMAIN files'
             /\ Bytes(files', {i \in DOMAIN files' : i <= MergedId(c)})
                   <= Bytes(files, {i \in DOMAIN files : i <= c})]_vars

\* C31: a set or a remove whose append or flush fails returns the error with
\* the index as it was, and a merge whose rename fails leaves the index and
\* the segments as they were; the failure leaves every lock free, so later
\* operations go on, and an index that agreed with the disk still agrees
C31_IoErrorKeepsIndex ==
    [][/\ \A t \in Threads :
            (pc[t] \in {"set_locked", "rm_locked"}
                /\ pc'[t] \in {"set_failed", "rm_failed"})
            => /\ map' = map
               /\ WriterFree' /\ MapFreeForWrite'
               /\ C4_IndexDiskAgreement => C4_IndexDiskAgreement'
       /\ \A c \in DOMAIN comp :
            (comp[c].phase = "scanned" /\ c \notin DOMAIN comp')
            => /\ map' = map /\ files' = files
               /\ Scanners' = Scanners \ {c}
               /\ WriterFree' = WriterFree
               /\ C4_IndexDiskAgreement => C4_IndexDiskAgreement'
      ]_vars

\* a set has failed and, after it, the other caller's set holds the writer
C31_Witness ==
    \E t, u \in Threads : pc[t] = "set_failed" /\ pc[u] = "set_locked"

\* C32: a get that holds the index read lock never finds that the segment
\* its key's index entry names has been unlinked by a compaction
C32_GetSegmentPresent ==
    \A t \in Threads :
        (pc[t] = "get_locked" /\ op[t].key \in DOMAIN map)
        => /\ map[op[t].key].path \in DOMAIN files
           /\ GetRet(t) # Err

\* C33: no job passed to spawn is called twice, whether it returns or panics,
\* and every job passed to spawn is called in the end, also when the pool is
\* dropped while the job is still in the queue
C33_JobRunsOnce ==
    /\ [](\A j \in 1..MaxJobs : pool.runs[j] <= 1)
    /\ \A j \in 1..MaxJobs : (pool.passed >= j) ~> (pool.runs[j] = 1)

\* the pool has been dropped, a job was still queued when the last job was
\* called, a panicking job is among the jobs, and each has been called once
C33_Witness ==
    /\ ~pool.open
    /\ pool.queue = <<>>
    /\ pool.passed = MaxJobs
    /\ pool.bad # {}
    /\ \A j \in 1..MaxJobs : pool.runs[j] = 1

\* the pool handle is dropped and the channel is empty
Closed == ~pool.open /\ pool.queue = <<>>

\* C34 as stated: once the queue is closed and drained the workers are gone
\* in the end and no thread is started any more
C34_NoSpawnOnceClosed ==
    /\ Closed ~> (Workers = {})
    /\ [][Closed => pool.spawned' = pool.spawned]_vars

\* C34: once the queue is closed and drained the workers are gone in the
\* end; an idle worker that leaves starts no thread, and the only threads
\* started after the close replace a worker whose job panicked
C34_IdleExitNotReplaced ==
    /\ Closed ~> (Workers = {})
    /\ [][/\ \A w \in Workers :
               (pool.workers[w].st = "idle" /\ w \notin Workers')
               => (Closed /\ pool.spawned' = pool.spawned
                     /\ Workers' = Workers \ {w})
          /\ (Closed /\ pool.spawned' # pool.spawned)
               => \E w \in Workers :
                     /\ pool.workers[w].st = "unwinding"
                     /\ Workers' = (Workers \ {w}) \cup {pool.spawned'}
      ]_vars

\* the queue is closed and drained and every worker has left, the threads
\* started by a drop among them
C34_Witness ==
    /\ Closed
    /\ Workers = {}
    /\ pool.spawned > PoolSize
====
